---- MODULE Spec2Model ----
(***************************************************************************)
(* A model of src/models/symbolic/rnn.py: the FolkLSTM object (its         *)
(* construction, its training loop with checkpointing, its sampling loop)  *)
(* and the masked loss.                                                     *)
(*                                                                         *)
(*   Spec      construction, train and the checkpoint directory            *)
(*   SpecGen   complete_tune                                               *)
(*   SpecLoss  loss_function                                               *)
(***************************************************************************)
EXTENDS Integers, Sequences, FiniteSets, TLC

VARIABLES
    \* ---- files under model_path
    saved_model_dir,   \* model_path/folk_lstm exists
    model_config,      \* model_path/lstm.json exists
    ckpt_dir,          \* the checkpoints the manager retains, oldest first
    \* ---- the FolkLSTM object of the running process
    obj,               \* "none", "ready", or the error __init__ raised
    step,              \* ckpt.step
    iterations,        \* optimizer.iterations: optimizer updates applied
    net,               \* the model weights, as the number of updates applied
    save_counter,      \* ckpt.save_counter
    \* ---- the train call in progress
    pc,                \* position in train
    configs,           \* the configs argument of train
    dataset,           \* number of batches the dataset yields per epoch
    epoch,
    i,                 \* enumerate index of the current batch
    \* ---- what the current train call did (history)
    log,               \* what train printed after the restore (lines 190-193)
    start_step,        \* ckpt.step right after the restore
    consumed,          \* batches consumed by this call
    metrics,           \* step keys passed to update_tensorboard
    run_saves,         \* save_model_checkpoint calls of this call
    batch_log,         \* per consumed batch: its index, the step, saved or not
    previews,          \* previews printed by this call
    processes,         \* objects constructed so far
    calls,             \* train calls so far
    \* ---- complete_tune
    gpc, vocab, max_timesteps, seed_tokens, start_token_idx, text_generated,
    current_token, is_eos, fed, fed_ids, row, sampled, result,
    \* ---- loss_function
    lpc, outputs, targets, denominator

trainVars == <<saved_model_dir, model_config, ckpt_dir, obj, step, iterations,
               net, save_counter, pc, configs, dataset, epoch, i, log,
               start_step, consumed, metrics, run_saves, batch_log, previews,
               processes, calls>>
genVars == <<gpc, vocab, max_timesteps, seed_tokens, start_token_idx,
             text_generated, current_token, is_eos, fed, fed_ids, row,
             sampled, result>>
lossVars == <<lpc, outputs, targets, denominator>>
vars == <<trainVars, genVars, lossVars>>

(***************************************************************************)
(* Bounds of the model.                                                    *)
(***************************************************************************)
MaxEpochs == 2       \* num_epochs ranges over 0..MaxEpochs
MaxBatches == 3      \* the dataset yields 0..MaxBatches batches
MaxFrequency == 2    \* save_frequency ranges over 1..MaxFrequency
MaxProcesses == 2    \* objects constructed (process starts)
MaxCalls == 2        \* train calls over all processes
MaxTimesteps == 3    \* data_dimensions['max_timesteps'] ranges over 1..MaxTimesteps
MaxSeedLen == 2      \* start_tokens has 1..MaxSeedLen tokens
MaxSamples == 3      \* sampling iterations followed per call
MaxLossSteps == 2    \* timesteps T of the logits given to loss_function
LossVocab == 2       \* vocabulary size V of the logits given to loss_function

(***************************************************************************)
(* Program constants.                                                      *)
(***************************************************************************)
max_to_keep == 3     \* CheckpointManager(..., max_to_keep = 3)

InitialStep == 1     \* tf.train.Checkpoint(step = tf.Variable(1), ...)

Last(s) == s[Len(s)]

(***************************************************************************)
(* __init__ (lines 36-74)                                                  *)
(***************************************************************************)
\* What __init__ ends with, from the files it finds.  self.model_configs is
\* assigned only when lstm.json exists (line 55) and self.model only when
\* folk_lstm exists (line 60); line 61 reads self.model_configs and line 68
\* reads self.model, and reading an attribute never assigned raises.
InitOutcome(saved, config) ==
    IF saved /\ ~config THEN "AttributeError"     \* line 61
    ELSE IF ~saved THEN "AttributeError"          \* line 68
    ELSE "ready"

\* The value of configs while no train call has been made.
NoConfigs ==
    [num_epochs |-> 0, save_frequency |-> 1, print_outputs_frequency |-> 1]

\* A process constructs its FolkLSTM.  The variables of the Checkpoint are
\* fresh; the CheckpointManager finds the checkpoints the directory holds.
Construct ==
    /\ processes < MaxProcesses
    /\ processes' = processes + 1
    /\ obj' = InitOutcome(saved_model_dir, model_config)
    /\ step' = InitialStep
    /\ iterations' = 0
    /\ net' = 0
    /\ save_counter' = 0
    /\ pc' = "idle"
    /\ log' = "none"
    /\ start_step' = 0
    /\ consumed' = 0
    /\ metrics' = <<>>
    /\ run_saves' = <<>>
    /\ batch_log' = <<>>
    /\ previews' = 0
    /\ configs' = NoConfigs
    /\ dataset' = 0
    /\ epoch' = 0
    /\ i' = 0
    /\ UNCHANGED <<saved_model_dir, model_config, ckpt_dir, calls>>

(***************************************************************************)
(* The checkpoint manager (lines 65-74, 181-183, 189)                      *)
(***************************************************************************)
\* What a checkpoint stores: the trackables of self.ckpt.
Snapshot(number, s, it, w) ==
    [number |-> number, step |-> s, iterations |-> it, net |-> w]

\* (variant) a sweep that deletes the newest checkpoints instead
Sweep_KeepOldest(files) ==
    IF Len(files) > max_to_keep THEN SubSeq(files, 1, max_to_keep) ELSE files

\* max_to_keep = 3: the manager deletes the oldest checkpoints beyond it.
Sweep(files) ==
    IF Len(files) > max_to_keep
    THEN SubSeq(files, Len(files) - max_to_keep + 1, Len(files))
    ELSE files

\* self.ckpt_manager.save(): the save counter advances, the checkpoint is
\* written under that number (so no save overwrites another), the manager
\* sweeps.
ManagerSave(files, s, it, w, counter) ==
    Sweep(Append(files, Snapshot(counter + 1, s, it, w)))

\* (variant) a restore that zeroes the counter when it finds no checkpoint
RestoredStep_Zero(files, current) ==
    IF files = <<>> THEN 0 ELSE Last(files).step

\* self.ckpt.restore(self.ckpt_manager.latest_checkpoint): with no checkpoint
\* the path is None and the variables keep their values.
RestoredStep(files, current) ==
    IF files = <<>> THEN current ELSE Last(files).step

\* (variant) a Checkpoint that does not hold the optimizer
RestoredIterations_NotTracked(files, current) == current

RestoredIterations(files, current) ==
    IF files = <<>> THEN current ELSE Last(files).iterations

RestoredNet(files, current) ==
    IF files = <<>> THEN current ELSE Last(files).net

RestoredSaveCounter(files, current) ==
    IF files = <<>> THEN current ELSE Last(files).number

(***************************************************************************)
(* train (lines 186-253)                                                   *)
(***************************************************************************)
Configs ==
    [num_epochs : 0..MaxEpochs,
     save_frequency : 1..MaxFrequency,
     print_outputs_frequency : {1, MaxFrequency}]

\* for i, (context, sequence) in enumerate(dataset): where the loop goes
\* once batch index b of d is dealt with (b = -1: the epoch begins).
AfterBatch(b, d) == IF b + 1 < d THEN "grad" ELSE "save_model"

\* (variant) a cadence read off the step counter
SaveDue_ByStep(b, s, frequency) == s % frequency = 0

\* line 226: i % configs['save_frequency'] is 0, for batch index b; the step
\* counter s is not read.  The identity test is of two small ints, which the
\* interpreter keeps as one object each, so it is true exactly when the
\* remainder equals 0.
SaveDue(b, s, frequency) == b % frequency = 0

\* line 210: i % configs['print_outputs_frequency'] == 0
PrintDue(b, frequency) == b % frequency = 0

\* (variant) a loop that leaves the counter alone
StepAfterBatch_Forgotten(s) == s

\* line 207: self.ckpt.step.assign_add(1)
StepAfterBatch(s) == s + 1

\* save_model_checkpoint, with the record of it kept in run_saves
SaveModelCheckpoint(kind) ==
    /\ ckpt_dir' = ManagerSave(ckpt_dir, step, iterations, net, save_counter)
    /\ save_counter' = save_counter + 1
    /\ run_saves' = Append(run_saves, [kind |-> kind, step |-> step])

\* train is called: the restore, then the first epoch begins unless
\* num_epochs is 0.
TrainStart ==
    /\ obj = "ready"
    /\ pc = "idle"
    /\ calls < MaxCalls
    /\ calls' = calls + 1
    /\ \E c \in Configs, d \in 0..MaxBatches :
          /\ configs' = c
          /\ dataset' = d
          /\ pc' = IF c.num_epochs = 0 THEN "idle" ELSE AfterBatch(-1, d)
    /\ step' = RestoredStep(ckpt_dir, step)
    /\ iterations' = RestoredIterations(ckpt_dir, iterations)
    /\ net' = RestoredNet(ckpt_dir, net)
    /\ save_counter' = RestoredSaveCounter(ckpt_dir, save_counter)
    /\ log' = IF ckpt_dir = <<>> THEN "Initializing from scratch."
                                 ELSE "Restored from"
    /\ start_step' = step'
    /\ consumed' = 0
    /\ metrics' = <<>>
    /\ run_saves' = <<>>
    /\ batch_log' = <<>>
    /\ previews' = 0
    /\ epoch' = 0
    /\ i' = 0
    /\ UNCHANGED <<saved_model_dir, model_config, ckpt_dir, obj, processes>>

\* lines 202-206: self.grad(...); apply_gradients updates the weights and
\* advances optimizer.iterations.
Grad ==
    /\ pc = "grad"
    /\ iterations' = iterations + 1
    /\ net' = net + 1
    /\ consumed' = consumed + 1
    /\ pc' = "assign_add"
    /\ UNCHANGED <<saved_model_dir, model_config, ckpt_dir, obj, step,
                   save_counter, configs, dataset, epoch, i, log, start_step,
                   metrics, run_saves, batch_log, previews, processes, calls>>

\* line 207
AssignAdd ==
    /\ pc = "assign_add"
    /\ step' = StepAfterBatch(step)
    /\ pc' = "update_tensorboard"
    /\ UNCHANGED <<saved_model_dir, model_config, ckpt_dir, obj, iterations,
                   net, save_counter, configs, dataset, epoch, i, log, start_step,
                   consumed, metrics, run_saves, batch_log, previews,
                   processes, calls>>

\* line 208
UpdateTensorboard ==
    /\ pc = "update_tensorboard"
    /\ metrics' = Append(metrics, step)
    /\ pc' = "print_outputs"
    /\ UNCHANGED <<saved_model_dir, model_config, ckpt_dir, obj, step,
                   iterations, net, save_counter, configs, dataset, epoch, i,
                   log, start_step, consumed, run_saves, batch_log, previews,
                   processes, calls>>

\* lines 210-214
PrintOutputs ==
    /\ pc = "print_outputs"
    /\ previews' = IF PrintDue(i, configs.print_outputs_frequency)
                   THEN previews + 1 ELSE previews
    /\ pc' = "periodic_save"
    /\ UNCHANGED <<saved_model_dir, model_config, ckpt_dir, obj, step,
                   iterations, net, save_counter, configs, dataset, epoch, i,
                   log, start_step, consumed, metrics, run_saves, batch_log,
                   processes, calls>>

\* lines 226-227, then the loop moves to the next batch or leaves
PeriodicSave ==
    /\ pc = "periodic_save"
    /\ IF SaveDue(i, step, configs.save_frequency)
       THEN SaveModelCheckpoint("periodic")
       ELSE UNCHANGED <<ckpt_dir, save_counter, run_saves>>
    /\ batch_log' = Append(batch_log,
                           [epoch |-> epoch, i |-> i, step |-> step,
                            saved |-> run_saves' # run_saves])
    /\ pc' = AfterBatch(i, dataset)
    /\ i' = IF i + 1 < dataset THEN i + 1 ELSE i
    /\ UNCHANGED <<saved_model_dir, model_config, obj, step, iterations, net,
                   configs, dataset, epoch, log, start_step, consumed, metrics,
                   previews, processes, calls>>

\* lines 236-240: tf.keras.models.save_model(self.model, .../folk_lstm/)
SaveModel ==
    /\ pc = "save_model"
    /\ saved_model_dir' = TRUE
    /\ pc' = "epoch_checkpoint"
    /\ UNCHANGED <<model_config, ckpt_dir, obj, step, iterations, net,
                   save_counter, configs, dataset, epoch, i, log, start_step,
                   consumed, metrics, run_saves, batch_log, previews,
                   processes, calls>>

\* line 242, then the next epoch begins or train returns
EpochCheckpoint ==
    /\ pc = "epoch_checkpoint"
    /\ SaveModelCheckpoint("epoch")
    /\ epoch' = epoch + 1
    /\ i' = 0
    /\ pc' = IF epoch + 1 < configs.num_epochs
             THEN AfterBatch(-1, dataset) ELSE "idle"
    /\ UNCHANGED <<saved_model_dir, model_config, obj, step, iterations, net,
                   configs, dataset, log, start_step, consumed, metrics,
                   batch_log, previews, processes, calls>>

Init ==
    /\ saved_model_dir \in BOOLEAN
    /\ model_config \in BOOLEAN
    /\ ckpt_dir = <<>>
    /\ obj = "none"
    /\ step = 0 /\ iterations = 0 /\ net = 0 /\ save_counter = 0
    /\ pc = "start"
    /\ configs = NoConfigs
    /\ dataset = 0 /\ epoch = 0 /\ i = 0
    /\ log = "none" /\ start_step = 0 /\ consumed = 0
    /\ metrics = <<>> /\ run_saves = <<>> /\ batch_log = <<>> /\ previews = 0
    /\ processes = 0 /\ calls = 0
    /\ gpc = "off" /\ vocab = <<>> /\ max_timesteps = 0 /\ seed_tokens = <<>>
    /\ start_token_idx = <<>> /\ text_generated = <<>> /\ current_token = ""
    /\ is_eos = FALSE /\ fed = <<>> /\ fed_ids = <<>> /\ row = 0
    /\ sampled = <<>> /\ result = ""
    /\ lpc = "off" /\ outputs = <<>> /\ targets = <<>> /\ denominator = 0

Next ==
    \/ (Construct /\ UNCHANGED <<genVars, lossVars>>)
    \/ (TrainStart /\ UNCHANGED <<genVars, lossVars>>)
    \/ (Grad /\ UNCHANGED <<genVars, lossVars>>)
    \/ (AssignAdd /\ UNCHANGED <<genVars, lossVars>>)
    \/ (UpdateTensorboard /\ UNCHANGED <<genVars, lossVars>>)
    \/ (PrintOutputs /\ UNCHANGED <<genVars, lossVars>>)
    \/ (PeriodicSave /\ UNCHANGED <<genVars, lossVars>>)
    \/ (SaveModel /\ UNCHANGED <<genVars, lossVars>>)
    \/ (EpochCheckpoint /\ UNCHANGED <<genVars, lossVars>>)

Spec == Init /\ [][Next]_vars

(***************************************************************************)
(* complete_tune (lines 256-283)                                           *)
(***************************************************************************)
EOS == "</s>"

\* self.vocab['idx_to_word'] of the vocabularies tried; word_to_idx is the
\* inverse mapping.
Vocabs ==
    { (1 :> "a" @@ 2 :> "b" @@ 3 :> "</s>"),
      (1 :> "</s>" @@ 2 :> "a"),
      (0 :> "<pad>" @@ 1 :> "a" @@ 2 :> "</s>") }

Tokens(v) == { v[id] : id \in DOMAIN v }

\* data_dimensions['tune_vocab_size']: ids are 0 .. size - 1
VocabSize(v) == 1 + CHOOSE m \in DOMAIN v : \A id \in DOMAIN v : id <= m

\* self.vocab['word_to_idx'][token]
WordToIdx(v, token) == CHOOSE id \in DOMAIN v : v[id] = token

\* the start_tokens tried: tokens of the vocabulary and one it lacks
Seeds(v) ==
    UNION { [1..n -> Tokens(v) \cup {"z"}] : n \in 1..MaxSeedLen }

RECURSIVE Join(_)
\* ''.join(tokens)
Join(tokens) ==
    IF tokens = <<>> THEN "" ELSE Head(tokens) \o Join(Tail(tokens))

\* len(start_token_idx) on line 270: start_token_idx is the tensor of shape
\* (1, n) that tf.expand_dims(ids, 0) gave, and len of a tensor is the size
\* of its first dimension.
LenOfBatched(ids) == 1

\* tf.pad(start_token_idx, [[0,0], [0, amount]], mode='CONSTANT'): the row
\* of ids followed by amount zeros
PadRight(ids, amount) == ids \o [k \in 1..amount |-> 0]

\* lines 268-272: the seed handed to self.model
Seed(ids, timesteps) == PadRight(ids, timesteps - LenOfBatched(ids))

\* tf.random.categorical(predictions, num_samples = 1)[-1, 0]: one sample
\* per row of the logits, of which the last row's is taken (rows counted
\* from 0).
SampledRow(rows) == rows - 1

\* complete_tune is entered: lines 258-263.  A start token the vocabulary
\* lacks raises KeyError on line 261.
StartCompleteTune ==
    /\ gpc = "call"
    /\ IF \A k \in DOMAIN seed_tokens : seed_tokens[k] \in Tokens(vocab)
       THEN /\ start_token_idx' =
                   [k \in DOMAIN seed_tokens |-> WordToIdx(vocab, seed_tokens[k])]
            /\ gpc' = "loop"
       ELSE /\ gpc' = "KeyError"
            /\ UNCHANGED start_token_idx
    /\ current_token' = ""
    /\ is_eos' = FALSE
    /\ text_generated' = seed_tokens
    /\ UNCHANGED <<vocab, max_timesteps, seed_tokens, fed, fed_ids, row,
                   sampled, result>>

\* One pass of the while loop, lines 265-282.  The loop test is
\* current_token is not '</s>', an identity test of two str objects: for a
\* token that is not '</s>' the objects differ; for one that is, whether the
\* vocabulary's object is the literal's object is the interpreter's choice
\* (is_eos, fixed when the token is read from the vocabulary).  Whether
\* self.model takes a seed whose length is not max_timesteps or raises is
\* the library's choice.  Any id of the vocabulary can be sampled; an id
\* idx_to_word lacks raises KeyError on line 281.
SamplingIteration ==
    /\ gpc = "loop"
    /\ ~is_eos
    /\ Len(sampled) < MaxSamples
    /\ fed' = Seed(start_token_idx, max_timesteps)
    /\ fed_ids' = start_token_idx
    /\ \E accepted \in BOOLEAN, predicted_id \in 0..(VocabSize(vocab) - 1),
          same \in BOOLEAN :
          IF Len(fed') # max_timesteps /\ ~accepted
          THEN /\ gpc' = "ValueError"
               /\ UNCHANGED <<row, start_token_idx, current_token, is_eos,
                              text_generated, sampled>>
          ELSE /\ row' = SampledRow(Len(fed'))
               /\ start_token_idx' = <<predicted_id>>
               /\ IF predicted_id \in DOMAIN vocab
                  THEN /\ current_token' = vocab[predicted_id]
                       /\ is_eos' = (vocab[predicted_id] = EOS /\ same)
                       /\ text_generated' =
                              Append(text_generated, vocab[predicted_id])
                       /\ sampled' = Append(sampled, vocab[predicted_id])
                       /\ gpc' = "loop"
                  ELSE /\ gpc' = "KeyError"
                       /\ UNCHANGED <<current_token, is_eos, text_generated,
                                      sampled>>
    /\ UNCHANGED <<vocab, max_timesteps, seed_tokens, result>>

\* The loop test fails and line 283 returns.
ReturnTune ==
    /\ gpc = "loop"
    /\ is_eos
    /\ result' = Join(text_generated)
    /\ gpc' = "done"
    /\ UNCHANGED <<vocab, max_timesteps, seed_tokens, start_token_idx,
                   text_generated, current_token, is_eos, fed, fed_ids, row,
                   sampled>>

\* A constructed object whose complete_tune is called.
InitGen ==
    /\ saved_model_dir = TRUE /\ model_config = TRUE /\ ckpt_dir = <<>>
    /\ obj = InitOutcome(TRUE, TRUE)
    /\ step = InitialStep /\ iterations = 0 /\ net = 0 /\ save_counter = 0
    /\ pc = "idle" /\ configs = NoConfigs
    /\ dataset = 0 /\ epoch = 0 /\ i = 0
    /\ log = "none" /\ start_step = 0 /\ consumed = 0
    /\ metrics = <<>> /\ run_saves = <<>> /\ batch_log = <<>> /\ previews = 0
    /\ processes = 1 /\ calls = 0
    /\ gpc = "call"
    /\ vocab \in Vocabs
    /\ max_timesteps \in 1..MaxTimesteps
    /\ seed_tokens \in Seeds(vocab)
    /\ start_token_idx = <<>> /\ text_generated = <<>> /\ current_token = ""
    /\ is_eos = FALSE /\ fed = <<>> /\ fed_ids = <<>> /\ row = 0
    /\ sampled = <<>> /\ result = ""
    /\ lpc = "off" /\ outputs = <<>> /\ targets = <<>> /\ denominator = 0

NextGen ==
    \/ (StartCompleteTune /\ UNCHANGED <<trainVars, lossVars>>)
    \/ (SamplingIteration /\ UNCHANGED <<trainVars, lossVars>>)
    \/ (ReturnTune /\ UNCHANGED <<trainVars, lossVars>>)

SpecGen == InitGen /\ [][NextGen]_vars

(***************************************************************************)
(* loss_function (lines 138-146)                                           *)
(***************************************************************************)
\* the values a logit takes in the inputs tried
LogitValues == {-1, 0, 1}

\* line 139: mask = logical_not(equal(outputs, 0)), cast to the loss dtype
\* on line 144: one entry per logit, 1 where the logit is not 0
Mask(logits) ==
    [t \in DOMAIN logits |->
        [v \in DOMAIN logits[t] |-> IF logits[t][v] = 0 THEN 0 ELSE 1]]

RECURSIVE Sum(_)
Sum(xs) == IF xs = <<>> THEN 0 ELSE Head(xs) + Sum(Tail(xs))

\* tf.reduce_sum over every entry of a matrix
ReduceSum(matrix) == Sum([t \in DOMAIN matrix |-> Sum(matrix[t])])

\* line 146: the denominator, tf.reduce_sum(mask).  The targets reach only
\* self.cross_entropy (line 140), never the mask.
LossDenominator(logits, y_true) == ReduceSum(Mask(logits))

\* loss_function is applied to the logits and targets of one sequence
LossFunction ==
    /\ lpc = "call"
    /\ denominator' = LossDenominator(outputs, targets)
    /\ lpc' = "done"
    /\ UNCHANGED <<outputs, targets>>

InitLoss ==
    /\ saved_model_dir = TRUE /\ model_config = TRUE /\ ckpt_dir = <<>>
    /\ obj = InitOutcome(TRUE, TRUE)
    /\ step = InitialStep /\ iterations = 0 /\ net = 0 /\ save_counter = 0
    /\ pc = "idle" /\ configs = NoConfigs
    /\ dataset = 0 /\ epoch = 0 /\ i = 0
    /\ log = "none" /\ start_step = 0 /\ consumed = 0
    /\ metrics = <<>> /\ run_saves = <<>> /\ batch_log = <<>> /\ previews = 0
    /\ processes = 1 /\ calls = 0
    /\ gpc = "off" /\ vocab = <<>> /\ max_timesteps = 0 /\ seed_tokens = <<>>
    /\ start_token_idx = <<>> /\ text_generated = <<>> /\ current_token = ""
    /\ is_eos = FALSE /\ fed = <<>> /\ fed_ids = <<>> /\ row = 0
    /\ sampled = <<>> /\ result = ""
    /\ lpc = "call"
    /\ \E T \in 1..MaxLossSteps :
          /\ outputs \in [1..T -> [1..LossVocab -> LogitValues]]
          /\ targets \in [1..T -> 0..(LossVocab - 1)]
    /\ denominator = 0

NextLoss == LossFunction /\ UNCHANGED <<trainVars, genVars>>

SpecLoss == InitLoss /\ [][NextLoss]_vars

(***************************************************************************)
(* Claims about construction, train and the checkpoints (under Spec).      *)
(***************************************************************************)

\* C2 (as stated): when model_path/folk_lstm does not exist, constructing a
\* FolkLSTM completes: __init__ raises nothing and leaves an object whose
\* model reference is unset, on which later calls fail.
C2_ConstructionCompletes ==
    (processes > 0 /\ ~saved_model_dir) =>
        /\ obj # "AttributeError"
        /\ consumed = 0 /\ ckpt_dir = <<>> /\ run_saves = <<>>

\* C3: once a train call has made more than max_to_keep saves (periodic and
\* end-of-epoch together), exactly max_to_keep checkpoints are retained; they
\* are the last max_to_keep saves, in order of saving, with the step values
\* of those saves.
C3_Retention ==
    Len(run_saves) > max_to_keep =>
        /\ Len(ckpt_dir) = max_to_keep
        /\ \A k \in 1..max_to_keep :
              /\ ckpt_dir[k].step =
                     run_saves[Len(run_saves) - max_to_keep + k].step
              /\ ckpt_dir[k].number = save_counter - max_to_keep + k

C3_Witness ==
    /\ pc = "idle"
    /\ Len(run_saves) > max_to_keep + 1
    /\ \E a, b \in DOMAIN run_saves :
          run_saves[a].kind = "periodic" /\ run_saves[b].kind = "epoch"
    /\ ckpt_dir[1].step < ckpt_dir[max_to_keep].step

\* C7 (as stated): a train call that finds no checkpoint starts from step 0,
\* and its first training step moves the step from 0 to 1.
C7_ColdStartAtZero ==
    log = "Initializing from scratch." =>
        /\ start_step = 0
        /\ Len(metrics) > 0 => metrics[1] = 1

\* C7 (amended): a train call that finds no checkpoint does not fail and
\* starts from the step the constructor set, 1; its first training step
\* moves the step from 1 to 2.
C7_ColdStartAtInitialStep ==
    log = "Initializing from scratch." =>
        /\ pc # "start" /\ obj = "ready"
        /\ start_step = InitialStep
        /\ consumed = 0 => step = InitialStep
        /\ Len(metrics) > 0 => metrics[1] = InitialStep + 1

C7_Witness ==
    /\ log = "Initializing from scratch."
    /\ Len(metrics) = 1
    /\ ckpt_dir = <<>>

\* C8 (as stated): a periodic save follows a training step exactly when the
\* step counter is a multiple of save_frequency.
C8_CadenceByStep ==
    \A k \in DOMAIN batch_log :
        batch_log[k].saved <=> (batch_log[k].step % configs.save_frequency = 0)

\* C8 (amended): a periodic save follows a training step exactly when the
\* index of the batch within its epoch is a multiple of save_frequency; so
\* the first batch of every epoch is followed by one, and within an epoch
\* consecutive periodic saves are save_frequency training steps apart.
C8_CadenceByBatchIndex ==
    /\ \A k \in DOMAIN batch_log :
          /\ batch_log[k].saved <=> (batch_log[k].i % configs.save_frequency = 0)
          /\ batch_log[k].i = 0 => batch_log[k].saved
    /\ \A j, k \in DOMAIN batch_log :
          ( /\ j < k
            /\ batch_log[j].epoch = batch_log[k].epoch
            /\ batch_log[j].saved /\ batch_log[k].saved
            /\ \A m \in (j + 1)..(k - 1) : ~batch_log[m].saved )
          => batch_log[k].step - batch_log[j].step = configs.save_frequency
    /\ Len(SelectSeq(run_saves, LAMBDA r : r.kind = "periodic"))
          = Len(SelectSeq(batch_log, LAMBDA r : r.saved))

C8_Witness ==
    /\ log = "Restored from"
    /\ configs.save_frequency > 1
    /\ \E j, k \in DOMAIN batch_log :
          /\ j < k
          /\ batch_log[j].epoch = batch_log[k].epoch
          /\ batch_log[j].saved /\ batch_log[k].saved
    /\ \E j, k \in DOMAIN batch_log :
          /\ batch_log[j].epoch # batch_log[k].epoch
          /\ batch_log[j].saved /\ ~batch_log[k].saved

\* C9: during a train call the step counter is the value it had after the
\* restore plus the number of batches whose step was completed, at every
\* position of the loop (so the preview, the checkpoint saves and the model
\* save leave it alone and it never decreases), and the metrics of the call
\* are keyed start+1, start+2, ...: strictly increasing.
C9_StepCounter ==
    log # "none" =>
        /\ step = start_step + consumed - (IF pc = "assign_add" THEN 1 ELSE 0)
        /\ \A k \in DOMAIN metrics : metrics[k] = start_step + k
        /\ \A j, k \in DOMAIN metrics : j < k => metrics[j] < metrics[k]
        /\ Len(metrics) =
              consumed - (IF pc \in {"assign_add", "update_tensorboard"}
                          THEN 1 ELSE 0)

C9_Witness ==
    /\ pc = "idle"
    /\ log = "Restored from"
    /\ epoch > 1
    /\ consumed > 2
    /\ previews > 0
    /\ step = start_step + consumed

\* C10: every checkpoint holds a step counter that exceeds the optimizer
\* updates it holds by the counter's initial value, and weights with exactly
\* those updates applied; this also holds for the checkpoints saved after a
\* restore.
C10_CheckpointInSync ==
    \A k \in DOMAIN ckpt_dir :
        /\ ckpt_dir[k].step - ckpt_dir[k].iterations = InitialStep
        /\ ckpt_dir[k].net = ckpt_dir[k].iterations

C10_Witness ==
    /\ processes > 1
    /\ log = "Restored from"
    /\ start_step > InitialStep
    /\ Len(run_saves) > 0
    /\ Last(ckpt_dir).step > start_step
    /\ Last(ckpt_dir).iterations > 0

(***************************************************************************)
(* Claims about complete_tune (under SpecGen).                             *)
(***************************************************************************)

\* C1 (as stated): the sampling loop stops after the first iteration whose
\* decoded token is '</s>' (no iteration runs after it, and the call
\* returns), and the value returned is the seed tokens followed by the
\* sampled tokens, the last of them '</s>'.
C1_StopsAtEndOfSequence ==
    /\ \A k \in 1..(Len(sampled) - 1) : sampled[k] # EOS
    /\ (gpc = "loop" /\ current_token = EOS) => ENABLED ReturnTune
    /\ gpc = "done" =>
          /\ result = Join(seed_tokens \o sampled)
          /\ Last(sampled) = EOS

\* C4 (as stated): in every iteration whose current ids are at most
\* max_timesteps many, the sequence handed to the model is those ids
\* followed by pad ids up to length max_timesteps exactly.
C4_SeedPaddedToMaxTimesteps ==
    (fed # <<>> /\ Len(fed_ids) <= max_timesteps) =>
        /\ Len(fed) = max_timesteps
        /\ fed = fed_ids \o [k \in 1..(max_timesteps - Len(fed_ids)) |-> 0]

\* C5 (as stated): in every iteration that samples, the sampled id comes
\* from the logits row of the last real id, row n - 1 for n current ids,
\* never from a row of the padding.
C5_SampledAtLastRealTimestep ==
    (fed # <<>> /\ gpc # "ValueError") => row = Len(fed_ids) - 1

(***************************************************************************)
(* Claims about loss_function (under SpecLoss).                            *)
(***************************************************************************)
\* the number of pad (id 0) positions of a target sequence
PadCount(y_true) == Cardinality({t \in DOMAIN y_true : y_true[t] = 0})

\* C6 (as stated): for targets with p < T pad positions the denominator of
\* the masked mean is T - p, whatever the logits.
C6_DenominatorCountsTargets ==
    (lpc = "done" /\ PadCount(targets) < Len(targets)) =>
        denominator = Len(targets) - PadCount(targets)

====
